---- MODULE Spec2Model ----
(***************************************************************************)
(* Model of pkg/builtin/builtin.go: the registry of builtin tools (Tools,  *)
(* Builtin, ListTools) and the five handlers SysRead, SysWrite,            *)
(* SysHTTPGet, SysHTTPPost and SysAbort.                                   *)
(*                                                                         *)
(* A Go string is modelled as the sequence of its bytes, so that           *)
(* concatenation, comparison, formatting and substring tests are computed  *)
(* and not assumed.  The text of a JSON input is modelled by its syntax    *)
(* tree, or by the value Malformed when it has none.  The filesystem and   *)
(* the HTTP peer are the environment: every outcome they can produce is a  *)
(* nondeterministic choice of the action that calls them.                  *)
(***************************************************************************)
EXTENDS FiniteSets, Integers, Sequences, TLC

VARIABLES
    Tools,      \* the package-level map of builtin.go:16
    fs,         \* the local filesystem: path -> content, or NoFile
    written,    \* history: path -> content of the last write if it succeeded
    last        \* the call that returned last: its input, result and I/O

vars == <<Tools, fs, written, last>>

-----------------------------------------------------------------------------
(* Bounds of the model.                                                    *)

MaxContentLen == 1      \* longest file content / POST content enumerated
MaxBodyLen == 1         \* longest HTTP response body enumerated

-----------------------------------------------------------------------------
(* Byte strings.                                                           *)

Empty == <<>>

\* Go's < on strings: bytewise lexicographic order (used by sort.Strings).
StrLess(a, b) ==
    \E i \in 1..Len(b) :
        /\ i <= Len(a) + 1
        /\ \A j \in 1..(i - 1) : a[j] = b[j]
        /\ (i = Len(a) + 1 \/ a[i] < b[i])

\* strings.Contains(s, sub)
Contains(s, sub) ==
    \E i \in 0..(Len(s) - Len(sub)) :
        \A j \in 1..Len(sub) : s[i + j] = sub[j]

\* The first n bytes of s (all of s when it is shorter).
FirstBytes(s, n) == [i \in 1..(IF n < Len(s) THEN n ELSE Len(s)) |-> s[i]]

\* All byte strings over alphabet of length at most n.
StringsUpTo(alphabet, n) == UNION {[1..k -> alphabet] : k \in 0..n}

\* fmt's %d of a non-negative integer: its decimal digits, no padding.
RECURSIVE Itoa(_)
Itoa(n) ==
    IF n < 10 THEN <<48 + n>>
    ELSE Itoa(n \div 10) \o <<48 + (n % 10)>>

-----------------------------------------------------------------------------
(* The registry.                                                           *)

NameSysRead     == <<115,121,115,46,114,101,97,100>>                 \* "sys.read"
NameSysWrite    == <<115,121,115,46,119,114,105,116,101>>            \* "sys.write"
NameSysHTTPGet  == <<115,121,115,46,104,116,116,112,46,103,101,116>> \* "sys.http.get"
NameSysAbort    == <<115,121,115,46,97,98,111,114,116>>              \* "sys.abort"
NameSysHTTPPost == <<115,121,115,46,104,116,116,112,46,112,111,115,116>> \* "sys.http.post"

KeyFilename    == <<102,105,108,101,110,97,109,101>>                 \* "filename"
KeyContent     == <<99,111,110,116,101,110,116>>                     \* "content"
KeyURL         == <<117,114,108>>                                    \* "url"
KeyContentType == <<99,111,110,116,101,110,116,84,121,112,101>>      \* "contentType"
KeyMessage     == <<109,101,115,115,97,103,101>>                     \* "message"

HashBang == <<35,33>>                                                \* "#!"

\* The zero value of types.Tool.
ZeroTool ==
    [Name |-> Empty, ID |-> Empty, Instructions |-> Empty,
     Description |-> "", Arguments |-> <<>>, BuiltinFunc |-> "nil"]

\* One entry of the map literal: Name, ID and Instructions are not set there.
Entry(description, arguments, func) ==
    [ZeroTool EXCEPT !.Description = description,
                     !.Arguments = arguments,
                     !.BuiltinFunc = func]

InitialTools ==
    (NameSysRead :> Entry("Reads the contents of a file",
                          <<KeyFilename>>, "SysRead"))
    @@ (NameSysWrite :> Entry("Write the contents to a file",
                              <<KeyFilename, KeyContent>>, "SysWrite"))
    @@ (NameSysHTTPGet :> Entry("Download the contents of a http or https URL",
                                <<KeyURL>>, "SysHTTPGet"))
    @@ (NameSysAbort :> Entry("Aborts execution",
                              <<KeyMessage>>, "SysAbort"))
    @@ (NameSysHTTPPost :> Entry("Write contents to a http or https URL using the POST method",
                                 <<KeyURL, KeyContent, KeyContentType>>, "SysHTTPPost"))

\* A mutant of Builtin: the identity fields are filled in on the map entry
\* itself (as with a map of pointers), and the entry is stored back.
BuiltinStoring(tools, name) ==
    LET ok == name \in DOMAIN tools
        t0 == IF ok THEN tools[name] ELSE ZeroTool
        t  == [t0 EXCEPT !.Name = name, !.ID = name,
                         !.Instructions = HashBang \o name]
    IN  [t |-> t, ok |-> ok,
         tools |-> [k \in DOMAIN tools \cup {name} |-> IF k = name THEN t ELSE tools[k]]]

\* A mutant of Builtin: the identity fields are filled in only when found.
BuiltinOnlyFound(tools, name) ==
    LET ok == name \in DOMAIN tools
        t0 == IF ok THEN tools[name] ELSE ZeroTool
        t  == IF ok THEN [t0 EXCEPT !.Name = name, !.ID = name,
                                    !.Instructions = HashBang \o name]
              ELSE t0
    IN  [t |-> t, ok |-> ok, tools |-> tools]

\* A mutant of Builtin: Instructions is the bare name, without the marker.
BuiltinNoMarker(tools, name) ==
    LET ok == name \in DOMAIN tools
        t0 == IF ok THEN tools[name] ELSE ZeroTool
        t  == [t0 EXCEPT !.Name = name, !.ID = name, !.Instructions = name]
    IN  [t |-> t, ok |-> ok, tools |-> tools]

\* Builtin(name): the two-value map read copies the entry (the zero Tool when
\* the key is absent), the three fields are set on the copy whatever ok is,
\* and the map is left as it was.
Builtin(tools, name) ==
    LET ok == name \in DOMAIN tools
        t0 == IF ok THEN tools[name] ELSE ZeroTool
        t  == [t0 EXCEPT !.Name = name, !.ID = name,
                         !.Instructions = HashBang \o name]
    IN  [t |-> t, ok |-> ok, tools |-> tools]

\* A mutant of SortStrings: the keys are left in iteration order.
SortStringsNone(keys) == keys

RECURSIVE InsertSorted(_, _)
InsertSorted(x, s) ==
    IF s = <<>> THEN <<x>>
    ELSE IF StrLess(x, Head(s)) THEN <<x>> \o s
    ELSE <<Head(s)>> \o InsertSorted(x, Tail(s))

RECURSIVE SortFrom(_, _)
SortFrom(keys, acc) ==
    IF keys = <<>> THEN acc
    ELSE SortFrom(Tail(keys), InsertSorted(Head(keys), acc))

\* sort.Strings(keys): the keys in increasing order.
SortStrings(keys) == SortFrom(keys, <<>>)

\* The orders in which `for k := range Tools` can deliver the keys.
KeyOrders(tools) ==
    {o \in [1..Cardinality(DOMAIN tools) -> DOMAIN tools] :
        \A i, j \in DOMAIN o : i # j => o[i] # o[j]}

\* The loop of ListTools over the sorted keys: one Builtin call per key.
RECURSIVE ListFrom(_, _, _)
ListFrom(tools, keys, result) ==
    IF keys = <<>> THEN [result |-> result, tools |-> tools]
    ELSE
        LET r == Builtin(tools, Head(keys))
        IN  ListFrom(r.tools, Tail(keys), Append(result, r.t))

\* ListTools(), the keys having been delivered in order `order`.
ListTools(tools, order) == ListFrom(tools, SortStrings(order), <<>>)

\* Names looked up: every registered name and some that are not registered.
UnregisteredNames ==
    {Empty, <<115,121,115>>, NameSysRead \o <<115>>, <<110,111,110,101>>}

LookupNames == DOMAIN InitialTools \cup UnregisteredNames

-----------------------------------------------------------------------------
(* Errors.  An error of a library is known by its kind; an error made by    *)
(* fmt.Errorf is known by its text.                                         *)

NilErr             == [kind |-> "nil", text |-> Empty]
SyntaxError        == [kind |-> "json.SyntaxError", text |-> Empty]
UnmarshalTypeError == [kind |-> "json.UnmarshalTypeError", text |-> Empty]
PathError          == [kind |-> "fs.PathError", text |-> Empty]
URLError           == [kind |-> "url.Error", text |-> Empty]
BodyError          == [kind |-> "io", text |-> Empty]
Errorf(text)       == [kind |-> "fmt.Errorf", text |-> text]

DecodeErrors == {SyntaxError, UnmarshalTypeError}

-----------------------------------------------------------------------------
(* JSON inputs and json.Unmarshal into a struct of string fields.           *)

JStr(s) == [kind |-> "string", s |-> s]
JNull   == [kind |-> "null", s |-> Empty]
JNum    == [kind |-> "number", s |-> Empty]

Malformed  == [kind |-> "malformed", members |-> <<>>]   \* e.g.  {"filename":
TopNull    == [kind |-> "null", members |-> <<>>]        \*       null
TopNumber  == [kind |-> "number", members |-> <<>>]      \*       5
TopString  == [kind |-> "string", members |-> <<>>]      \*       "f"
TopArray   == [kind |-> "array", members |-> <<>>]       \*       []
JObject(members) == [kind |-> "object", members |-> members]
Member(key, val) == [key |-> key, val |-> val]

NonObjects == {Malformed, TopNull, TopNumber, TopString, TopArray}

ToLower(s) == [i \in DOMAIN s |-> IF s[i] \in 65..90 THEN s[i] + 32 ELSE s[i]]
ToUpper(s) == [i \in DOMAIN s |-> IF s[i] \in 97..122 THEN s[i] - 32 ELSE s[i]]

\* The struct fields a JSON key selects: the field whose tag is the key, and
\* failing that the field whose tag equals it up to letter case.
FieldsFor(key, fields) ==
    IF key \in fields THEN {key}
    ELSE {f \in fields : ToLower(f) = ToLower(key)}

RECURSIVE DecodeMembers(_, _, _)
DecodeMembers(members, params, err) ==
    IF members = <<>> THEN [params |-> params, err |-> err]
    ELSE
        LET m  == Head(members)
            matched == FieldsFor(m.key, DOMAIN params)
        IN  IF matched = {} THEN DecodeMembers(Tail(members), params, err)
            ELSE
                LET f == CHOOSE x \in matched : TRUE
                IN  CASE m.val.kind = "string" ->
                            DecodeMembers(Tail(members),
                                          [params EXCEPT ![f] = m.val.s], err)
                      [] m.val.kind = "null" ->
                            DecodeMembers(Tail(members), params, err)
                      [] OTHER ->
                            DecodeMembers(Tail(members), params,
                                          IF err = NilErr THEN UnmarshalTypeError
                                          ELSE err)

\* A mutant of Unmarshal: a field that is absent from an object is rejected.
UnmarshalRequired(input, fields) ==
    LET zero == [f \in fields |-> Empty]
        d    == DecodeMembers(input.members, zero, NilErr)
    IN  CASE input.kind = "malformed" -> [params |-> zero, err |-> SyntaxError]
          [] input.kind = "null" -> [params |-> zero, err |-> NilErr]
          [] input.kind = "object" ->
                IF \A f \in fields :
                      \E i \in DOMAIN input.members :
                          FieldsFor(input.members[i].key, fields) = {f}
                THEN d
                ELSE [params |-> d.params, err |-> UnmarshalTypeError]
          [] OTHER -> [params |-> zero, err |-> UnmarshalTypeError]

\* json.Unmarshal([]byte(input), &params), params having the string fields
\* `fields`, all zero before the call.
Unmarshal(input, fields) ==
    LET zero == [f \in fields |-> Empty]
    IN  CASE input.kind = "malformed" -> [params |-> zero, err |-> SyntaxError]
          [] input.kind = "null" -> [params |-> zero, err |-> NilErr]
          [] input.kind = "object" -> DecodeMembers(input.members, zero, NilErr)
          [] OTHER -> [params |-> zero, err |-> UnmarshalTypeError]

\* The objects that give each key of keySeq, in this order, one of its values
\* or leave it out.
RECURSIVE MemberSeqs(_, _)
MemberSeqs(keySeq, values) ==
    IF keySeq = <<>> THEN {<<>>}
    ELSE
        LET rest == MemberSeqs(Tail(keySeq), values)
        IN  rest \cup {<<Member(Head(keySeq), v)>> \o r :
                          v \in values[Head(keySeq)], r \in rest}

KeyOther == <<120>>                                                  \* "x"

\* Objects with a key in another letter case, a repeated key, an unknown key.
OddObjects(key, v, w) ==
    {<<Member(ToUpper(key), v)>>,
     <<Member(key, v), Member(key, w)>>,
     <<Member(key, v), Member(ToUpper(key), JNum)>>,
     <<Member(KeyOther, JNum), Member(key, w)>>}

InputsOver(keySeq, values, odd) ==
    NonObjects \cup {JObject(m) : m \in MemberSeqs(keySeq, values) \cup odd}

-----------------------------------------------------------------------------
(* The filesystem.                                                          *)

PathF   == <<102>>      \* "f", a path where a regular file can be
PathG   == <<103>>      \* "g", another one
PathDir == <<100>>      \* "d", an existing directory

FilePaths == {PathF, PathG}
Contents  == StringsUpTo({97, 98}, MaxContentLen)

NoFile  == [exists |-> FALSE, data |-> Empty]
File(c) == [exists |-> TRUE, data |-> c]

Unknown  == [known |-> FALSE, data |-> Empty]
Known(c) == [known |-> TRUE, data |-> c]

\* os.ReadFile(path): the whole content of a regular file; an error for the
\* empty path, a directory and a file that does not exist.
ReadFile(fsys, path) ==
    IF path \in DOMAIN fsys /\ fsys[path].exists
    THEN [data |-> fsys[path].data, err |-> NilErr]
    ELSE [data |-> Empty, err |-> PathError]

\* What the filesystem does with a write: it completes, the open fails, or
\* the write stops after n bytes of the truncated file.
NoEffect  == [kind |-> "none", n |-> 0]
FsEffects == {[kind |-> "done", n |-> 0], [kind |-> "open", n |-> 0]}
             \cup {[kind |-> "short", n |-> k] : k \in 0..MaxContentLen}

\* A mutant of WriteFile: the file is opened for appending, not truncated.
WriteFileAppend(fsys, path, data, effect) ==
    IF path \notin DOMAIN fsys THEN [fs |-> fsys, err |-> PathError]
    ELSE CASE effect.kind = "done" ->
                [fs |-> [fsys EXCEPT ![path] = File(fsys[path].data \o data)],
                 err |-> NilErr]
           [] effect.kind = "short" ->
                [fs |-> [fsys EXCEPT ![path] =
                            File(fsys[path].data \o FirstBytes(data, effect.n))],
                 err |-> PathError]
           [] OTHER -> [fs |-> fsys, err |-> PathError]

\* os.WriteFile(path, data, 0644): open with O_WRONLY|O_CREATE|O_TRUNC, write
\* data, close.  The empty path and a directory cannot be opened.
WriteFile(fsys, path, data, effect) ==
    IF path \notin DOMAIN fsys THEN [fs |-> fsys, err |-> PathError]
    ELSE CASE effect.kind = "done" ->
                [fs |-> [fsys EXCEPT ![path] = File(data)], err |-> NilErr]
           [] effect.kind = "short" ->
                [fs |-> [fsys EXCEPT ![path] = File(FirstBytes(data, effect.n))],
                 err |-> PathError]
           [] OTHER -> [fs |-> fsys, err |-> PathError]

\* The effects the filesystem can have on the calls in io (none without a call).
EffectPossible(fsys, io, effect) ==
    IF io = <<>> THEN effect = NoEffect
    ELSE IF io[1].path \notin DOMAIN fsys THEN effect.kind = "open"
    ELSE /\ effect \in FsEffects
         /\ effect.kind = "short" => effect.n < Len(io[1].data)

-----------------------------------------------------------------------------
(* The HTTP peer.                                                           *)

StatusOK == 200
PostErrorAbove == 399

URLGood == <<117>>      \* "u", a URL that a server answers
URLBad  == <<58>>       \* ":", a URL without a scheme before its colon

StatusCodes == {200, 201, 304, 399, 400, 404, 500}
Bodies      == StringsUpTo({66}, MaxBodyLen)
Reason      == <<82>>   \* "R", the reason phrase of every status line

NoReply     == [kind |-> "none", StatusCode |-> 0, Body |-> Empty, readErr |-> FALSE]
FailedReply == [kind |-> "error", StatusCode |-> 0, Body |-> Empty, readErr |-> FALSE]
Responses   ==
    [kind : {"response"}, StatusCode : StatusCodes, Body : Bodies, readErr : BOOLEAN]
Replies     == {FailedReply} \cup Responses

\* resp.Status, e.g. "404 R"
Status(reply) == Itoa(reply.StatusCode) \o <<32>> \o Reason

\* url.Parse fails on a colon in first place (no scheme before it).
URLParses(url) == ~(Len(url) > 0 /\ url[1] = 58)

\* The replies the peer can give to the calls in io (none without a call): a
\* response needs a URL that some server answers.
ReplyPossible(io, reply) ==
    IF io = <<>> THEN reply = NoReply
    ELSE /\ reply \in Replies
         /\ reply.kind = "response" => io[1].url = URLGood

-----------------------------------------------------------------------------
(* The handlers.  Each yields the result string, the error and the I/O      *)
(* calls it made, given its input and what the environment did.             *)

TextDownload == <<102,97,105,108,101,100,32,116,111,32,
                  100,111,119,110,108,111,97,100,32>>     \* "failed to download "
TextPost     == <<102,97,105,108,101,100,32,116,111,32,
                  112,111,115,116,32>>                    \* "failed to post "
TextColon    == <<58,32>>                                 \* ": "
TextWrote    == <<87,114,111,116,101,32>>                 \* "Wrote "
TextTo       == <<32,116,111,32>>                         \* " to "
TextAbort    == <<65,66,79,82,84,58,32>>                  \* "ABORT: "
TextAbortMarker == <<65,66,79,82,84,58>>                  \* "ABORT:"

Return(out, err, io) == [out |-> out, err |-> err, io |-> io]

SysRead(fsys, input) ==
    LET d        == Unmarshal(input, {KeyFilename})
        filename == d.params[KeyFilename]
        r        == ReadFile(fsys, filename)
        io       == <<[call |-> "os.ReadFile", path |-> filename]>>
    IN  IF d.err # NilErr THEN Return(Empty, d.err, <<>>)
        ELSE IF r.err # NilErr THEN Return(Empty, r.err, io)
        ELSE Return(r.data, NilErr, io)

\* A mutant of SysWrite: the error of the decoding is not looked at.
SysWriteUnchecked(fsys, input, effect) ==
    LET d        == Unmarshal(input, {KeyFilename, KeyContent})
        filename == d.params[KeyFilename]
        data     == d.params[KeyContent]
        w        == WriteFile(fsys, filename, data, effect)
        io       == <<[call |-> "os.WriteFile", path |-> filename, data |-> data]>>
    IN  [out |-> Empty, err |-> w.err, io |-> io, fs |-> w.fs]

SysWrite(fsys, input, effect) ==
    LET d        == Unmarshal(input, {KeyFilename, KeyContent})
        filename == d.params[KeyFilename]
        data     == d.params[KeyContent]
        w        == WriteFile(fsys, filename, data, effect)
        io       == <<[call |-> "os.WriteFile", path |-> filename, data |-> data]>>
    IN  IF d.err # NilErr
        THEN [out |-> Empty, err |-> d.err, io |-> <<>>, fs |-> fsys]
        ELSE [out |-> Empty, err |-> w.err, io |-> io, fs |-> w.fs]

\* A mutant of SysHTTPGet: every status from 200 to 299 counts as success.
SysHTTPGetAny2xx(input, reply) ==
    LET d   == Unmarshal(input, {KeyURL})
        url == d.params[KeyURL]
        io  == <<[call |-> "http.Get", url |-> url]>>
    IN  IF d.err # NilErr THEN Return(Empty, d.err, <<>>)
        ELSE IF reply.kind # "response" THEN Return(Empty, URLError, io)
        ELSE IF reply.StatusCode < 200 \/ reply.StatusCode > 299
        THEN Return(Empty,
                    Errorf(TextDownload \o url \o TextColon \o Status(reply)), io)
        ELSE IF reply.readErr THEN Return(Empty, BodyError, io)
        ELSE Return(reply.Body, NilErr, io)

SysHTTPGet(input, reply) ==
    LET d   == Unmarshal(input, {KeyURL})
        url == d.params[KeyURL]
        io  == <<[call |-> "http.Get", url |-> url]>>
    IN  IF d.err # NilErr THEN Return(Empty, d.err, <<>>)
        ELSE IF reply.kind # "response" THEN Return(Empty, URLError, io)
        ELSE IF reply.StatusCode # StatusOK
        THEN Return(Empty,
                    Errorf(TextDownload \o url \o TextColon \o Status(reply)), io)
        ELSE IF reply.readErr THEN Return(Empty, BodyError, io)
        ELSE Return(reply.Body, NilErr, io)

\* The header of the request: Content-Type is set only to a non-empty value.
Header(contentType) ==
    IF contentType # Empty THEN [h \in {"Content-Type"} |-> contentType]
    ELSE [h \in {} |-> Empty]

\* A mutant of SysHTTPPost: the status test is off by one (>= 399).
SysHTTPPostOffByOne(input, reply) ==
    LET d       == Unmarshal(input, {KeyURL, KeyContent, KeyContentType})
        url     == d.params[KeyURL]
        content == d.params[KeyContent]
        io      == <<[call |-> "http.Client.Do", method |-> "POST", url |-> url,
                      body |-> content,
                      header |-> Header(d.params[KeyContentType])]>>
    IN  IF d.err # NilErr THEN Return(Empty, d.err, <<>>)
        ELSE IF ~URLParses(url) THEN Return(Empty, URLError, <<>>)
        ELSE IF reply.kind # "response" THEN Return(Empty, URLError, io)
        ELSE IF reply.StatusCode >= PostErrorAbove
        THEN Return(Empty,
                    Errorf(TextPost \o url \o TextColon \o Status(reply)), io)
        ELSE Return(TextWrote \o Itoa(Len(content)) \o TextTo \o url, NilErr, io)

SysHTTPPost(input, reply) ==
    LET d       == Unmarshal(input, {KeyURL, KeyContent, KeyContentType})
        url     == d.params[KeyURL]
        content == d.params[KeyContent]
        io      == <<[call |-> "http.Client.Do", method |-> "POST", url |-> url,
                      body |-> content,
                      header |-> Header(d.params[KeyContentType])]>>
    IN  IF d.err # NilErr THEN Return(Empty, d.err, <<>>)
        ELSE IF ~URLParses(url) THEN Return(Empty, URLError, <<>>)
        ELSE IF reply.kind # "response" THEN Return(Empty, URLError, io)
        ELSE IF reply.StatusCode > PostErrorAbove
        THEN Return(Empty,
                    Errorf(TextPost \o url \o TextColon \o Status(reply)), io)
        ELSE Return(TextWrote \o Itoa(Len(content)) \o TextTo \o url, NilErr, io)

\* A mutant of SysAbort: an abort without a message is not an error.
SysAbortQuiet(input) ==
    LET d == Unmarshal(input, {KeyMessage})
    IN  IF d.err # NilErr THEN Return(Empty, d.err, <<>>)
        ELSE IF d.params[KeyMessage] = Empty THEN Return(Empty, NilErr, <<>>)
        ELSE Return(Empty, Errorf(TextAbort \o d.params[KeyMessage]), <<>>)

SysAbort(input) ==
    LET d == Unmarshal(input, {KeyMessage})
    IN  IF d.err # NilErr THEN Return(Empty, d.err, <<>>)
        ELSE Return(Empty, Errorf(TextAbort \o d.params[KeyMessage]), <<>>)

-----------------------------------------------------------------------------
(* The inputs enumerated for each handler: every input that is not an       *)
(* object, and the objects over the values below.  The Some...Inputs are a  *)
(* part of them, used where all seven operations run together.              *)

PathValues == {JStr(p) : p \in {Empty, PathF, PathG, PathDir}} \cup {JNull, JNum}
URLValues  == {JStr(u) : u \in {Empty, URLGood, URLBad}} \cup {JNum}
Messages   == {Empty, <<88>>, TextAbortMarker}
MediaType  == <<116>>                                                \* "t"

ReadInputs ==
    InputsOver(<<KeyFilename>>, [k \in {KeyFilename} |-> PathValues],
               OddObjects(KeyFilename, JStr(PathF), JStr(PathG)))

WriteInputs ==
    InputsOver(<<KeyFilename, KeyContent>>,
               [k \in {KeyFilename, KeyContent} |->
                    IF k = KeyFilename THEN PathValues
                    ELSE {JStr(c) : c \in Contents} \cup {JNum}],
               OddObjects(KeyContent, JStr(<<97>>), JStr(Empty)))

GetInputs ==
    InputsOver(<<KeyURL>>, [k \in {KeyURL} |-> URLValues],
               OddObjects(KeyURL, JStr(URLGood), JStr(URLBad)))

PostInputs ==
    InputsOver(<<KeyURL, KeyContent, KeyContentType>>,
               [k \in {KeyURL, KeyContent, KeyContentType} |->
                    IF k = KeyURL THEN URLValues
                    ELSE IF k = KeyContent THEN {JStr(c) : c \in Contents}
                    ELSE {JStr(Empty), JStr(MediaType), JNull}],
               OddObjects(KeyContentType, JStr(MediaType), JStr(Empty)))

AbortInputs ==
    InputsOver(<<KeyMessage>>,
               [k \in {KeyMessage} |-> {JStr(m) : m \in Messages} \cup {JNull, JNum}],
               OddObjects(KeyMessage, JStr(<<88>>), JStr(Empty)))

SomeReadInputs ==
    InputsOver(<<KeyFilename>>, [k \in {KeyFilename} |-> {JStr(PathF), JNum}], {})

SomeWriteInputs ==
    InputsOver(<<KeyFilename, KeyContent>>,
               [k \in {KeyFilename, KeyContent} |->
                    IF k = KeyFilename THEN {JStr(PathF), JNum}
                    ELSE {JStr(<<97>>), JNum}],
               {})

SomeGetInputs ==
    InputsOver(<<KeyURL>>, [k \in {KeyURL} |-> {JStr(URLGood), JNum}], {})

SomePostInputs ==
    InputsOver(<<KeyURL, KeyContent, KeyContentType>>,
               [k \in {KeyURL, KeyContent, KeyContentType} |->
                    IF k = KeyURL THEN {JStr(URLGood), JNum}
                    ELSE IF k = KeyContent THEN {JStr(<<97>>)}
                    ELSE {JStr(MediaType)}],
               {})

SomeAbortInputs ==
    InputsOver(<<KeyMessage>>, [k \in {KeyMessage} |-> {JStr(<<88>>), JNum}], {})

-----------------------------------------------------------------------------
(* The state machine: one action per exported function.                     *)

Init ==
    /\ Tools = InitialTools
    /\ fs = [p \in FilePaths |-> NoFile]
    /\ written = [p \in FilePaths |-> Unknown]
    /\ last = [op |-> "none"]

Returned(op, input, env, r) ==
    [op |-> op, input |-> input, env |-> env,
     out |-> r.out, err |-> r.err, io |-> r.io]

CallBuiltin ==
    \E name \in LookupNames :
        LET r == Builtin(Tools, name)
        IN  /\ Tools' = r.tools
            /\ last' = [op |-> "Builtin", name |-> name, t |-> r.t, ok |-> r.ok]
            /\ UNCHANGED <<fs, written>>

CallListTools ==
    \E order \in KeyOrders(Tools) :
        LET r == ListTools(Tools, order)
        IN  /\ Tools' = r.tools
            /\ last' = [op |-> "ListTools", result |-> r.result]
            /\ UNCHANGED <<fs, written>>

CallSysRead(inputs) ==
    \E input \in inputs :
        /\ last' = Returned("SysRead", input, NoEffect, SysRead(fs, input))
        /\ UNCHANGED <<Tools, fs, written>>

CallSysWrite(inputs) ==
    \E input \in inputs, effect \in FsEffects \cup {NoEffect} :
        LET r == SysWrite(fs, input, effect)
        IN  /\ EffectPossible(fs, r.io, effect)
            /\ last' = Returned("SysWrite", input, effect, r)
            /\ fs' = r.fs
            /\ written' =
                  IF r.io # <<>> /\ r.io[1].path \in FilePaths
                  THEN [written EXCEPT ![r.io[1].path] =
                            IF r.err = NilErr THEN Known(r.io[1].data) ELSE Unknown]
                  ELSE written
            /\ UNCHANGED Tools

CallSysHTTPGet(inputs) ==
    \E input \in inputs, reply \in Replies \cup {NoReply} :
        LET r == SysHTTPGet(input, reply)
        IN  /\ ReplyPossible(r.io, reply)
            /\ last' = Returned("SysHTTPGet", input, reply, r)
            /\ UNCHANGED <<Tools, fs, written>>

CallSysHTTPPost(inputs) ==
    \E input \in inputs, reply \in Replies \cup {NoReply} :
        LET r == SysHTTPPost(input, reply)
        IN  /\ ReplyPossible(r.io, reply)
            /\ last' = Returned("SysHTTPPost", input, reply, r)
            /\ UNCHANGED <<Tools, fs, written>>

CallSysAbort(inputs) ==
    \E input \in inputs :
        /\ last' = Returned("SysAbort", input, NoReply, SysAbort(input))
        /\ UNCHANGED <<Tools, fs, written>>

\* Every operation of the package, in any order.
Next ==
    \/ CallBuiltin
    \/ CallListTools
    \/ CallSysRead(SomeReadInputs)
    \/ CallSysWrite(SomeWriteInputs)
    \/ CallSysHTTPGet(SomeGetInputs)
    \/ CallSysHTTPPost(SomePostInputs)
    \/ CallSysAbort(SomeAbortInputs)

Spec == Init /\ [][Next]_vars

\* The two file handlers, over all their inputs.
NextFS ==
    \/ CallSysRead(ReadInputs)
    \/ CallSysWrite(WriteInputs)

SpecFS == Init /\ [][NextFS]_vars

\* The handlers that touch no file, over all their inputs.
NextHTTP ==
    \/ CallSysHTTPGet(GetInputs)
    \/ CallSysHTTPPost(PostInputs)
    \/ CallSysAbort(AbortInputs)

SpecHTTP == Init /\ [][NextHTTP]_vars

-----------------------------------------------------------------------------
(* Properties.                                                              *)

Registered == DOMAIN InitialTools
Handlers   == {"SysRead", "SysWrite", "SysHTTPGet", "SysHTTPPost", "SysAbort"}

\* s is the marker "#!" followed by name.
IsMarked(s, name) ==
    /\ Len(s) = Len(name) + 2
    /\ s[1] = 35
    /\ s[2] = 33
    /\ \A i \in 1..Len(name) : s[i + 2] = name[i]

\* t carries what the registry stores under name.
CarriesEntry(t, name) ==
    /\ t.Description = InitialTools[name].Description
    /\ t.Arguments = InitialTools[name].Arguments
    /\ t.BuiltinFunc = InitialTools[name].BuiltinFunc

\* C1: for every registered name, Builtin(name) returns found = true and a
\* descriptor with Name = ID = name, Instructions = "#!" followed by name, and
\* the Description, Arguments and handler stored under name.
C1_LookupRegistered ==
    (last.op = "Builtin" /\ last.name \in Registered) =>
        /\ last.ok
        /\ last.t.Name = last.name
        /\ last.t.ID = last.name
        /\ IsMarked(last.t.Instructions, last.name)
        /\ CarriesEntry(last.t, last.name)

C1_Witness ==
    /\ last.op = "Builtin"
    /\ last.name = NameSysHTTPPost
    /\ last.ok
    /\ last.t.BuiltinFunc = "SysHTTPPost"

\* C2 as stated: for every name that is not registered, Builtin(name) returns
\* found = false and the zero-value descriptor (every field empty).
C2_UnregisteredIsZero ==
    (last.op = "Builtin" /\ last.name \notin Registered) =>
        /\ ~last.ok
        /\ last.t = ZeroTool

\* C2 as amended: for every name that is not registered, Builtin(name)
\* returns found = false and a descriptor whose Description, Arguments and
\* handler are zero, while Name and ID are the name asked for and Instructions
\* is "#!" followed by it.
C2_UnregisteredKeepsName ==
    (last.op = "Builtin" /\ last.name \notin Registered) =>
        /\ ~last.ok
        /\ last.t.Description = ""
        /\ last.t.Arguments = <<>>
        /\ last.t.BuiltinFunc = "nil"
        /\ last.t.Name = last.name
        /\ last.t.ID = last.name
        /\ IsMarked(last.t.Instructions, last.name)

C2_Witness ==
    /\ last.op = "Builtin"
    /\ ~last.ok
    /\ last.name = <<110,111,110,101>>
    /\ last.t.Name # Empty

\* C3: ListTools returns exactly one descriptor per registry key, in strictly
\* ascending bytewise order of Name, each one as Builtin returns it.
C3_ListSortedComplete ==
    last.op = "ListTools" =>
        LET r == last.result
        IN  /\ Len(r) = Cardinality(Registered)
            /\ \A k \in Registered : Cardinality({i \in DOMAIN r : r[i].Name = k}) = 1
            /\ \A i \in 1..(Len(r) - 1) : StrLess(r[i].Name, r[i + 1].Name)
            /\ [i \in DOMAIN r |-> r[i].Name] =
                  <<NameSysAbort, NameSysHTTPGet, NameSysHTTPPost,
                    NameSysRead, NameSysWrite>>
            /\ \A i \in DOMAIN r :
                  /\ r[i].ID = r[i].Name
                  /\ IsMarked(r[i].Instructions, r[i].Name)
                  /\ CarriesEntry(r[i], r[i].Name)
                  /\ r[i] = Builtin(Tools, r[i].Name).t

C3_Witness ==
    /\ last.op = "ListTools"
    /\ Len(last.result) = 5
    /\ last.result[1].Name = NameSysAbort

\* The struct tags each handler decodes into.
FieldsOf(op) ==
    CASE op = "SysRead" -> {KeyFilename}
      [] op = "SysWrite" -> {KeyFilename, KeyContent}
      [] op = "SysHTTPGet" -> {KeyURL}
      [] op = "SysHTTPPost" -> {KeyURL, KeyContent, KeyContentType}
      [] op = "SysAbort" -> {KeyMessage}

\* The input cannot be decoded into string fields `fields`: it has no syntax
\* tree, is neither an object nor null, or gives one of the fields a value
\* that is neither a string nor null.
Undecodable(input, fields) ==
    \/ input.kind \notin {"object", "null"}
    \/ \E i \in DOMAIN input.members :
          /\ \E f \in fields : ToLower(f) = ToLower(input.members[i].key)
          /\ input.members[i].val.kind \notin {"string", "null"}

C4_Step ==
    (last'.op \in Handlers /\ Undecodable(last'.input, FieldsOf(last'.op))) =>
        /\ last'.out = Empty
        /\ last'.err \in DecodeErrors
        /\ last'.io = <<>>
        /\ fs' = fs

\* C4: a handler whose input cannot be decoded returns the empty result and
\* the decode error, having made no I/O call and left the files as they were.
C4_DecodeFailsBeforeIO == [][C4_Step]_vars

C4_Witness ==
    /\ last.op = "SysWrite"
    /\ last.err = UnmarshalTypeError
    /\ \E i \in DOMAIN last.input.members :
          /\ last.input.members[i].key = KeyFilename
          /\ last.input.members[i].val = JStr(PathF)
    /\ last.io = <<>>
    /\ fs[PathF] = File(<<97>>)
    /\ written[PathF] = Known(<<97>>)

C5_Step ==
    /\ last'.op = "SysWrite" => last'.out = Empty
    /\ \A p \in FilePaths :
          ( /\ last'.op = "SysRead"
            /\ last'.io # <<>>
            /\ last'.io[1].path = p
            /\ written[p].known ) =>
                /\ last'.err = NilErr
                /\ last'.out = written[p].data

C6_AbortAlwaysFails ==
    last.op = "SysAbort" =>
        /\ last.out = Empty
        /\ last.err # NilErr
        /\ last.io = <<>>
        /\ \A x \in Messages :
              last.input = JObject(<<Member(KeyMessage, JStr(x))>>) =>
                  /\ last.err.kind = "fmt.Errorf"
                  /\ Contains(last.err.text, TextAbortMarker)
                  /\ Contains(last.err.text, x)

C6_Witness ==
    /\ last.op = "SysAbort"
    /\ last.input = JObject(<<Member(KeyMessage, JStr(Empty))>>)
    /\ last.err.kind = "fmt.Errorf"

\* C7: http.get succeeds exactly when a response with status 200 arrived and
\* its body was read, and then returns the body; on any other status it
\* returns the empty result and an error naming the URL and the status.
C7_GetOnly200 ==
    last.op = "SysHTTPGet" =>
        /\ last.err = NilErr <=>
              /\ last.env.kind = "response"
              /\ last.env.StatusCode = 200
              /\ ~last.env.readErr
        /\ last.err = NilErr => last.out = last.env.Body
        /\ last.err # NilErr => last.out = Empty
        /\ (last.env.kind = "response" /\ last.env.StatusCode # 200) =>
              /\ last.err.kind = "fmt.Errorf"
              /\ Contains(last.err.text, last.io[1].url)
              /\ Contains(last.err.text, Status(last.env))

C7_Witness ==
    /\ last.op = "SysHTTPGet"
    /\ last.env.kind = "response"
    /\ last.env.StatusCode = 201
    /\ last.env.Body # Empty
    /\ last.err # NilErr

\* C8: once a response arrived, http.post fails exactly when the status is
\* above 399, with an error naming the URL and the status; otherwise it returns
\* a message with the byte count of the content and the URL and nothing of
\* the response body.  Content-Type is set on the request exactly when
\* contentType is not empty.
C8_PostStatusAndHeader ==
    last.op = "SysHTTPPost" =>
        /\ last.env.kind = "response" =>
              /\ last.err # NilErr <=> last.env.StatusCode > 399
              /\ last.env.StatusCode > 399 =>
                    /\ last.out = Empty
                    /\ last.err.kind = "fmt.Errorf"
                    /\ Contains(last.err.text, last.io[1].url)
                    /\ Contains(last.err.text, Status(last.env))
              /\ last.env.StatusCode <= 399 =>
                    /\ Contains(last.out, <<48 + Len(last.io[1].body)>>)
                    /\ Contains(last.out, last.io[1].url)
                    /\ last.env.Body # Empty => ~Contains(last.out, last.env.Body)
        /\ last.io # <<>> =>
              LET given == Unmarshal(last.input, FieldsOf(last.op)).params
              IN  /\ last.io[1].body = given[KeyContent]
                  /\ IF given[KeyContentType] = Empty
                     THEN DOMAIN last.io[1].header = {}
                     ELSE /\ DOMAIN last.io[1].header = {"Content-Type"}
                          /\ last.io[1].header["Content-Type"] = given[KeyContentType]

C8_Witness ==
    /\ last.op = "SysHTTPPost"
    /\ last.env.kind = "response"
    /\ last.env.StatusCode = 399
    /\ last.env.Body # Empty
    /\ last.err = NilErr
    /\ Len(last.io[1].body) = 1
    /\ DOMAIN last.io[1].header = {"Content-Type"}

\* C9: no operation changes the registry: it has the keys and the stored
\* descriptors of initialisation in every reachable state.
C9_RegistryUnchanged ==
    /\ Tools = InitialTools
    /\ \A k \in DOMAIN Tools :
          /\ Tools[k].Name = Empty
          /\ Tools[k].ID = Empty
          /\ Tools[k].Instructions = Empty

C9_Witness ==
    /\ last.op = "Builtin"
    /\ ~last.ok
    /\ last.t.Name = last.name
    /\ last.name \notin DOMAIN Tools

\* The object gives no value to the key, in any letter case.
Absent(input, key) ==
    \A i \in DOMAIN input.members : ToLower(input.members[i].key) # ToLower(key)

\* C10: a well-formed object that leaves a parameter out is not rejected: the
\* handler goes on to its I/O call with the empty string for that parameter,
\* and the error returned is the one of that call.
C10_AbsentIsEmpty ==
    ( /\ last.op \in {"SysRead", "SysWrite", "SysHTTPGet", "SysHTTPPost"}
      /\ last.input.kind = "object"
      /\ ~Undecodable(last.input, FieldsOf(last.op)) ) =>
        /\ last.err \notin DecodeErrors
        /\ (last.op \in {"SysRead", "SysWrite"} /\ Absent(last.input, KeyFilename)) =>
              /\ last.io # <<>>
              /\ last.io[1].path = Empty
              /\ last.err = PathError
        /\ (last.op \in {"SysHTTPGet", "SysHTTPPost"} /\ Absent(last.input, KeyURL)) =>
              /\ last.io # <<>>
              /\ last.io[1].url = Empty
              /\ last.err = URLError
        /\ (last.op = "SysWrite" /\ Absent(last.input, KeyContent)) =>
              /\ last.io # <<>>
              /\ last.io[1].data = Empty
        /\ (last.op = "SysHTTPPost" /\ Absent(last.input, KeyContentType)
                /\ last.io # <<>>) =>
              DOMAIN last.io[1].header = {}

C10_Witness ==
    /\ last.op = "SysWrite"
    /\ last.input = JObject(<<Member(KeyContent, JStr(<<97>>))>>)
    /\ last.err = PathError
    /\ last.io[1].path = Empty

====
